---- MODULE Spec2Model ----
(***************************************************************************)
(* VaultMind backend: the JWKS key cache (get_jwks), the bearer-token      *)
(* verifier (verify_jwt) and the Google-token resolver                     *)
(* (get_google_access_token_from_auth0) with the Management-API token      *)
(* cache behind it.                                                        *)
(*                                                                         *)
(* Requests are asyncio coroutines: a handler runs without interruption    *)
(* from one await to the next, so every action below is the code between   *)
(* two network awaits.                                                     *)
(***************************************************************************)
EXTENDS Integers, Sequences, FiniteSets, TLC

(***************************************************************************)
(* Bounds of the model.                                                    *)
(***************************************************************************)
NCallers == 2
MaxCalls == 2
MaxTicks == 2
MaxLogs == 3

(***************************************************************************)
(* Program constants.                                                      *)
(***************************************************************************)
JWKS_CACHE_DURATION == 3600

\* Python's None for a timestamp (jwks_last_updated = None) and for an absent
\* numeric claim.
NoTime == -1

None == "None"

Callers == 1..NCallers

\* The clock moves by one second or by one second less than the cache
\* duration, so that ages just below, at and above the duration all occur.
TickSteps == {1, JWKS_CACHE_DURATION - 1}

(***************************************************************************)
(* JWKS documents.  A document is the JSON object the key endpoint answers  *)
(* with: hasKeys says whether the object has a "keys" member at all (the    *)
(* object {} has none and is falsy in Python), keys is that list.           *)
(* A key is its kid and its modulus n; n = 0 stands for key material        *)
(* RSAAlgorithm.from_jwk cannot parse.                                      *)
(***************************************************************************)
KeyA == [kid |-> "k1", n |-> 1]
KeyB == [kid |-> "k2", n |-> 2]
KeyBad == [kid |-> "k2", n |-> 0]

EmptyDict == [hasKeys |-> FALSE, keys |-> <<>>]

Docs ==
    { EmptyDict,
      [hasKeys |-> TRUE, keys |-> <<>>],
      [hasKeys |-> TRUE, keys |-> <<KeyA>>],
      [hasKeys |-> TRUE, keys |-> <<KeyA, KeyB>>],
      [hasKeys |-> TRUE, keys |-> <<KeyBad, KeyB>>] }

\* Python truthiness of a dict: non-empty.
Truthy(doc) == doc.hasKeys

\* jwks.get("keys", [])
KeysOf(doc) == IF doc.hasKeys THEN doc.keys ELSE <<>>

(***************************************************************************)
(* Bearer tokens.  signer is the modulus of the key that produced the      *)
(* signature; kid and alg are what the unverified header declares.         *)
(***************************************************************************)
ExpectedAudience == "https://api"
ExpectedIssuer == "https://tenant/"

MalformedToken ==
    [malformed |-> TRUE, kid |-> None, alg |-> None, signer |-> 0,
     aud |-> None, iss |-> None, exp |-> NoTime, nbf |-> NoTime, sub |-> None]

WellFormedTokens ==
    [malformed : {FALSE},
     kid : {None, "k1", "k2"},
     alg : {"RS256", "HS256"},
     signer : {1, 2},
     aud : {ExpectedAudience, "https://other"},
     iss : {ExpectedIssuer, "https://evil/"},
     exp : {NoTime, 2, JWKS_CACHE_DURATION},
     nbf : {NoTime, 2},
     sub : {"user|1"}]

Tokens == {MalformedToken} \cup WellFormedTokens

(***************************************************************************)
(* What a caller gets: an HTTP status with a detail string, and on         *)
(* success (status 200) the verified payload, of which sub is kept.  at is *)
(* the instant the token was decoded.                                      *)
(***************************************************************************)
Failure(status, detail, t) ==
    [status |-> status, detail |-> detail, sub |-> None, at |-> t]

Claims(token, t) ==
    [status |-> 200, detail |-> "ok", sub |-> token.sub, at |-> t]

NoResult == [status |-> 0, detail |-> None, sub |-> None, at |-> NoTime]

(***************************************************************************)
(* jwt.decode(token, public_key, algorithms=["RS256"], audience=...,       *)
(* issuer=...): the name of the exception PyJWT raises, or "ok".  PyJWT    *)
(* rejects an algorithm outside the allow-list before it verifies the      *)
(* signature, and validates the registered claims only after the signature *)
(* verified, in the order iat/nbf, exp, iss, aud; exp is expired when      *)
(* exp <= now, nbf (or iat) is immature when it is > now.                  *)
(***************************************************************************)
JwtDecode_AudBeforeExp(token, key, t) ==
    IF token.alg # "RS256" THEN "InvalidAlgorithmError"
    ELSE IF key.n # token.signer THEN "InvalidSignatureError"
    ELSE IF token.nbf # NoTime /\ token.nbf > t THEN "ImmatureSignatureError"
    ELSE IF token.aud # ExpectedAudience THEN "InvalidAudienceError"
    ELSE IF token.exp # NoTime /\ token.exp <= t THEN "ExpiredSignatureError"
    ELSE IF token.iss # ExpectedIssuer THEN "InvalidIssuerError"
    ELSE "ok"

JwtDecode_NoAudience(token, key, t) ==
    IF token.alg # "RS256" THEN "InvalidAlgorithmError"
    ELSE IF key.n # token.signer THEN "InvalidSignatureError"
    ELSE IF token.nbf # NoTime /\ token.nbf > t THEN "ImmatureSignatureError"
    ELSE IF token.exp # NoTime /\ token.exp <= t THEN "ExpiredSignatureError"
    ELSE IF token.iss # ExpectedIssuer THEN "InvalidIssuerError"
    ELSE "ok"

JwtDecode_IssAfterAud(token, key, t) ==
    IF token.alg # "RS256" THEN "InvalidAlgorithmError"
    ELSE IF key.n # token.signer THEN "InvalidSignatureError"
    ELSE IF token.nbf # NoTime /\ token.nbf > t THEN "ImmatureSignatureError"
    ELSE IF token.exp # NoTime /\ token.exp <= t THEN "ExpiredSignatureError"
    ELSE IF token.aud # ExpectedAudience THEN "InvalidAudienceError"
    ELSE IF token.iss # ExpectedIssuer THEN "InvalidIssuerError"
    ELSE "ok"

JwtDecode(token, key, t) ==
    IF token.alg # "RS256" THEN "InvalidAlgorithmError"
    ELSE IF key.n # token.signer THEN "InvalidSignatureError"
    ELSE IF token.nbf # NoTime /\ token.nbf > t THEN "ImmatureSignatureError"
    ELSE IF token.exp # NoTime /\ token.exp <= t THEN "ExpiredSignatureError"
    ELSE IF token.iss # ExpectedIssuer THEN "InvalidIssuerError"
    ELSE IF token.aud # ExpectedAudience THEN "InvalidAudienceError"
    ELSE "ok"

FindKey_IgnoresKid(doc, kid) ==
    LET keys == KeysOf(doc)
    IN  IF keys = <<>> THEN <<>> ELSE <<keys[1]>>

\* The for loop over jwks.get("keys", []): the first key whose kid is the
\* token's, as a sequence of zero or one key (rsa_key = None when empty).
FindKey(doc, kid) ==
    LET keys == KeysOf(doc)
        hits == {i \in DOMAIN keys : keys[i].kid = kid}
    IN  IF hits = {} THEN <<>>
        ELSE <<keys[CHOOSE i \in hits : \A j \in hits : i <= j]>>

(***************************************************************************)
(* verify_jwt after get_jwks returned jwks: everything from               *)
(* jwt.get_unverified_header to the return or to the except clause that    *)
(* turns the exception into an HTTPException.                              *)
(***************************************************************************)
VerifyWithKeys(token, jwks, t) ==
    IF token.malformed
    THEN Failure(401, "Invalid JWT token: DecodeError", t)
    ELSE IF token.kid = None
    THEN Failure(401, "JWT missing key ID", t)
    ELSE LET rsa_key == FindKey(jwks, token.kid) IN
      IF rsa_key = <<>>
      THEN Failure(401, "Unable to find appropriate key", t)
      ELSE IF rsa_key[1].n = 0
      THEN Failure(401, "Unable to verify JWT token: InvalidKeyError", t)
      ELSE LET raised == JwtDecode(token, rsa_key[1], t) IN
        IF raised = "ok" THEN Claims(token, t)
        ELSE IF raised = "ExpiredSignatureError"
        THEN Failure(401, "JWT token has expired", t)
        ELSE Failure(401, "Invalid JWT token: " \o raised, t)

(***************************************************************************)
(* State.                                                                  *)
(*   now, nticks        the clock (seconds) and how often it has moved     *)
(*   AUTH0_DOMAIN       os.getenv("AUTH0_DOMAIN"), fixed for the process   *)
(*   jwks_cache, jwks_last_updated   the module globals of main.py         *)
(*   pc, tok, current_time   per request: where the coroutine stands       *)
(*                      ("idle", "fetch" = suspended in client.get,        *)
(*                      "done"), its bearer token, and the local           *)
(*                      current_time get_jwks took on entry                *)
(*   keysOut, result    per request: what get_jwks gave verify_jwt and     *)
(*                      what verify_jwt gave its caller                    *)
(*   fetched, failed    per request: it issued a GET to the key endpoint;  *)
(*                      that GET failed                                    *)
(*   fetchCount, calls  GETs issued so far; requests started so far        *)
(***************************************************************************)
VARIABLES now, nticks, AUTH0_DOMAIN, jwks_cache, jwks_last_updated,
          pc, tok, current_time, keysOut, result, fetched, failed,
          fetchCount, calls

keyVars == <<AUTH0_DOMAIN, jwks_cache, jwks_last_updated, pc, tok,
             current_time, keysOut, result, fetched, failed, fetchCount,
             calls>>

(***************************************************************************)
(* State of the token resolver.                                            *)
(*   AUTH0_CLIENT_ID, AUTH0_CLIENT_SECRET   the environment                *)
(*   mgmt_token_cache   _mgmt_token_cache of auth0_management.py           *)
(*   rpc, user_claims   per request: where the resolving coroutine stands  *)
(*                      ("idle", "token" = suspended in client.post to     *)
(*                      /oauth/token, "api" = suspended in client.get of   *)
(*                      the user record, "done") and its argument          *)
(*   mgmt_token         per request: the token get_management_api_token    *)
(*                      returned to it                                     *)
(*   google_token       per request: what the resolver returned            *)
(*   api_answer         per request: what the Management API answered      *)
(*   consulted          per request: the methods tried so far, in order    *)
(*   apiCalls, tokenRequests   per request: GETs of the user record and    *)
(*                      POSTs to /oauth/token it issued                    *)
(*   rcalls             resolutions started so far                         *)
(*   token_answer       per request: how get_management_api_token ended    *)
(*                      ("none" = not called or not yet ended, "cached",   *)
(*                      "missing_credentials", "error" = the POST failed   *)
(*                      at transport level, "status" = raise_for_status,   *)
(*                      "issued" = a new token was returned)               *)
(*   mgmt_expiry        history: the instant at which the cached token     *)
(*                      expires by the lifetime the token endpoint stated  *)
(*   token_data         history: the last answer of the token endpoint,    *)
(*                      with expires_in = NoTime when it stated none       *)
(***************************************************************************)
VARIABLES AUTH0_CLIENT_ID, AUTH0_CLIENT_SECRET, mgmt_token_cache,
          rpc, user_claims, mgmt_token, google_token, api_answer,
          consulted, apiCalls, tokenRequests, rcalls, token_answer,
          mgmt_expiry, token_data

resolveVars == <<AUTH0_CLIENT_ID, AUTH0_CLIENT_SECRET, mgmt_token_cache,
                 rpc, user_claims, mgmt_token, google_token, api_answer,
                 consulted, apiCalls, tokenRequests, rcalls, token_answer,
                 mgmt_expiry, token_data>>

(***************************************************************************)
(* State of the audit log.                                                 *)
(*   logs       audit_log.logs, the list of entries in the order logged    *)
(*   logged     history: per user, the (action, success) pairs log_action  *)
(*              was called with, in the order of the calls                 *)
(***************************************************************************)
VARIABLES logs, logged

auditVars == <<logs, logged>>

(***************************************************************************)
(* State of the agent and of the calendar endpoints.                       *)
(*   OPENAI_API_KEY     os.getenv("OPENAI_API_KEY"), fixed for the process *)
(*   apc                where process_message stands for the one chat      *)
(*                      request in progress ("idle", "completion" =        *)
(*                      suspended in client.post to the completion API,    *)
(*                      "resolving" = suspended in                         *)
(*                      get_google_access_token_from_auth0, "done")        *)
(*   msg, agent_claims  its message (which keywords it contains, whether   *)
(*                      user_claims were passed) and the claims            *)
(*   handler            the handler that asked for the Google token        *)
(*   moderation, completion   how the moderation call and the completion   *)
(*                      call of this message ended                         *)
(*   agent_result       what process_message returned                      *)
(*   intent_detected    history: intent detection was started for this     *)
(*                      message (completion request or keyword test)       *)
(*   rcalls_before      history: rcalls when the message arrived           *)
(*   client_constructions   history: GoogleCalendarClient(...) calls made  *)
(*                      for this message                                   *)
(*   chats              requests to the agent and the calendar endpoints   *)
(*                      so far                                             *)
(*   ep_claims, ep_result   the claims and the outcome of the last         *)
(*                      request to a calendar endpoint                     *)
(***************************************************************************)
VARIABLES OPENAI_API_KEY, apc, msg, agent_claims, handler, moderation,
          completion, agent_result, intent_detected, rcalls_before,
          client_constructions, chats, ep_claims, ep_result

agentVars == <<OPENAI_API_KEY, apc, msg, agent_claims, handler, moderation,
               completion, agent_result, intent_detected, rcalls_before,
               client_constructions, chats, ep_claims, ep_result>>

\* What an action of the key cache leaves alone, and what one of the
\* resolver does.
nonKeyVars == <<resolveVars, auditVars, agentVars>>
nonResolveVars == <<jwks_cache, jwks_last_updated, pc, tok, current_time,
                    keysOut, result, fetched, failed, fetchCount, calls,
                    auditVars, agentVars>>

\* What get_jwks hands to its caller: a document it returned (age is
\* current_time - jwks_last_updated when it came from the cache) or the
\* HTTPException it raised.
KeysReturned(doc, age) ==
    [kind |-> "returned", doc |-> doc, age |-> age, detail |-> None]

KeysRaised(detail) ==
    [kind |-> "raised", doc |-> EmptyDict, age |-> NoTime, detail |-> detail]

NoKeys == [kind |-> "none", doc |-> EmptyDict, age |-> NoTime, detail |-> None]

\* The test at the head of get_jwks: a non-empty cached document, a
\* timestamp, and an age below the cache duration.
CacheValid_Inverted(cache, last, t) ==
    /\ Truthy(cache)
    /\ last # NoTime /\ last # 0
    /\ (t - last) > JWKS_CACHE_DURATION

CacheValid(cache, last, t) ==
    /\ Truthy(cache)
    /\ last # NoTime /\ last # 0
    /\ (t - last) < JWKS_CACHE_DURATION

\* The except clause of get_jwks: the failure is raised as a 500 whatever
\* the cache holds.
OnFetchFailure_ServeStale(cache) ==
    IF Truthy(cache) THEN KeysReturned(cache, NoTime)
    ELSE KeysRaised("Unable to verify JWT signature")

OnFetchFailure(cache) == KeysRaised("Unable to verify JWT signature")

VerifyJwt_AsInvalidToken(token, keys, t) ==
    IF keys.kind = "raised"
    THEN Failure(401, "Unable to verify JWT token: " \o keys.detail, t)
    ELSE VerifyWithKeys(token, keys.doc, t)

\* verify_jwt as a whole, given what its call of get_jwks produced: an
\* HTTPException of get_jwks is re-raised as it is.
VerifyJwt(token, keys, t) ==
    IF keys.kind = "raised" THEN Failure(500, keys.detail, t)
    ELSE VerifyWithKeys(token, keys.doc, t)

Finish(p, token, keys) ==
    /\ keysOut' = [keysOut EXCEPT ![p] = keys]
    /\ result' = [result EXCEPT ![p] = VerifyJwt(token, keys, now)]
    /\ pc' = [pc EXCEPT ![p] = "done"]

InitKeys ==
    /\ AUTH0_DOMAIN \in {"tenant", None}
    /\ jwks_cache = EmptyDict
    /\ jwks_last_updated = NoTime
    /\ pc = [p \in Callers |-> "idle"]
    /\ tok = [p \in Callers |-> MalformedToken]
    /\ current_time = [p \in Callers |-> NoTime]
    /\ keysOut = [p \in Callers |-> NoKeys]
    /\ result = [p \in Callers |-> NoResult]
    /\ fetched = [p \in Callers |-> FALSE]
    /\ failed = [p \in Callers |-> FALSE]
    /\ fetchCount = 0
    /\ calls = 0

\* A request arrives while the cache is valid: get_jwks returns the cached
\* document and verify_jwt runs to its end.
VerifyCached(p, token) ==
    /\ pc[p] = "idle" /\ calls < MaxCalls
    /\ CacheValid(jwks_cache, jwks_last_updated, now)
    /\ tok' = [tok EXCEPT ![p] = token]
    /\ calls' = calls + 1
    /\ Finish(p, token, KeysReturned(jwks_cache, now - jwks_last_updated))
    /\ UNCHANGED <<now, nticks, AUTH0_DOMAIN, jwks_cache, jwks_last_updated,
                   current_time, fetched, failed, fetchCount>>
    /\ UNCHANGED nonKeyVars

\* A refresh is needed and AUTH0_DOMAIN is not configured.
VerifyNoDomain(p, token) ==
    /\ pc[p] = "idle" /\ calls < MaxCalls
    /\ ~CacheValid(jwks_cache, jwks_last_updated, now)
    /\ AUTH0_DOMAIN = None
    /\ tok' = [tok EXCEPT ![p] = token]
    /\ calls' = calls + 1
    /\ Finish(p, token, KeysRaised("AUTH0_DOMAIN not configured"))
    /\ UNCHANGED <<now, nticks, AUTH0_DOMAIN, jwks_cache, jwks_last_updated,
                   current_time, fetched, failed, fetchCount>>
    /\ UNCHANGED nonKeyVars

\* A refresh is needed: the GET is issued and the coroutine is suspended.
FetchStart(p, token) ==
    /\ pc[p] = "idle" /\ calls < MaxCalls
    /\ ~CacheValid(jwks_cache, jwks_last_updated, now)
    /\ AUTH0_DOMAIN # None
    /\ tok' = [tok EXCEPT ![p] = token]
    /\ calls' = calls + 1
    /\ current_time' = [current_time EXCEPT ![p] = now]
    /\ fetched' = [fetched EXCEPT ![p] = TRUE]
    /\ fetchCount' = fetchCount + 1
    /\ pc' = [pc EXCEPT ![p] = "fetch"]
    /\ UNCHANGED <<now, nticks, AUTH0_DOMAIN, jwks_cache, jwks_last_updated,
                   keysOut, result, failed>>
    /\ UNCHANGED nonKeyVars

\* A request arrives with one of the given bearer tokens: verify_jwt up to
\* its first suspension, or to its end when there is none.
Arrive(p, tokens) ==
    /\ pc[p] = "idle" /\ calls < MaxCalls
    /\ \E token \in tokens :
         \/ VerifyCached(p, token)
         \/ VerifyNoDomain(p, token)
         \/ FetchStart(p, token)

FetchFail_ClearsCache(p) ==
    /\ pc[p] = "fetch"
    /\ failed' = [failed EXCEPT ![p] = TRUE]
    /\ jwks_cache' = EmptyDict
    /\ Finish(p, tok[p], OnFetchFailure(jwks_cache))
    /\ UNCHANGED <<now, nticks, AUTH0_DOMAIN, jwks_last_updated,
                   tok, current_time, fetched, fetchCount, calls>>
    /\ UNCHANGED nonKeyVars

\* The GET fails (transport error, error status, undecodable body).
FetchFail(p) ==
    /\ pc[p] = "fetch"
    /\ failed' = [failed EXCEPT ![p] = TRUE]
    /\ Finish(p, tok[p], OnFetchFailure(jwks_cache))
    /\ UNCHANGED <<now, nticks, AUTH0_DOMAIN, jwks_cache, jwks_last_updated,
                   tok, current_time, fetched, fetchCount, calls>>
    /\ UNCHANGED nonKeyVars

FetchSuccess_KeepsTimestamp(p, doc) ==
    /\ pc[p] = "fetch"
    /\ jwks_cache' = doc
    /\ Finish(p, tok[p], KeysReturned(doc, NoTime))
    /\ UNCHANGED <<now, nticks, AUTH0_DOMAIN, jwks_last_updated, tok,
                   current_time, fetched, failed, fetchCount, calls>>
    /\ UNCHANGED nonKeyVars

\* The GET answers with a document: both globals are assigned, the
\* timestamp from the current_time taken on entry.
FetchSuccess(p, doc) ==
    /\ pc[p] = "fetch"
    /\ jwks_cache' = doc
    /\ jwks_last_updated' = current_time[p]
    /\ Finish(p, tok[p], KeysReturned(doc, NoTime))
    /\ UNCHANGED <<now, nticks, AUTH0_DOMAIN, tok, current_time, fetched,
                   failed, fetchCount, calls>>
    /\ UNCHANGED nonKeyVars

\* The response has been sent; the caller comes back with its next request.
Return(p) ==
    /\ pc[p] = "done"
    /\ pc' = [pc EXCEPT ![p] = "idle"]
    /\ tok' = [tok EXCEPT ![p] = MalformedToken]
    /\ current_time' = [current_time EXCEPT ![p] = NoTime]
    /\ keysOut' = [keysOut EXCEPT ![p] = NoKeys]
    /\ result' = [result EXCEPT ![p] = NoResult]
    /\ fetched' = [fetched EXCEPT ![p] = FALSE]
    /\ failed' = [failed EXCEPT ![p] = FALSE]
    /\ UNCHANGED <<now, nticks, AUTH0_DOMAIN, jwks_cache, jwks_last_updated,
                   fetchCount, calls>>
    /\ UNCHANGED nonKeyVars

(***************************************************************************)
(* The token resolver: get_google_access_token_from_auth0 and, behind its  *)
(* third method, get_google_access_token_from_management_api and           *)
(* get_management_api_token.                                               *)
(***************************************************************************)
DEFAULT_EXPIRES_IN == 86400
EXPIRY_BUFFER == 300

\* Python truthiness of an optional string.
TruthyStr(x) == x # None /\ x # ""

\* Lists of linked identities, as they come in the claims or in a user
\* record: each has a provider and possibly an access token.
GoogleNoToken == [provider |-> "google-oauth2", access_token |-> None]
GoogleEmptyToken == [provider |-> "google-oauth2", access_token |-> ""]
GitHub == [provider |-> "github", access_token |-> "tok-github"]
Google(t) == [provider |-> "google-oauth2", access_token |-> t]

ClaimIdentityLists ==
    { <<>>,
      <<GoogleNoToken>>,
      <<GitHub>>,
      <<GitHub, Google("tok-claims-identity")>>,
      <<GoogleEmptyToken, Google("tok-claims-second")>> }

RecordIdentityLists ==
    { <<>>,
      <<GoogleNoToken>>,
      <<GitHub>>,
      <<GitHub, Google("tok-management")>>,
      <<GoogleEmptyToken, Google("tok-management-second")>> }

\* The verified claims handed to the resolver: the namespaced custom claim,
\* the non-namespaced one, sub, and the identities array.
AllUserClaims ==
    [ns : {None, "", "tok-namespaced"},
     plain : {None, "tok-plain"},
     sub : {None, "user|1"},
     identities : ClaimIdentityLists]

NoUserClaims == [ns |-> None, plain |-> None, sub |-> None, identities |-> <<>>]

\* What the token endpoint answers with status 200: data["access_token"]
\* and data.get("expires_in") (NoTime when absent).
TokenAnswers ==
    [access_token : {"mgmt-a", "mgmt-b"},
     expires_in : {NoTime, EXPIRY_BUFFER, JWKS_CACHE_DURATION + EXPIRY_BUFFER}]

\* Answers that state a lifetime shorter than the buffer.
ShortLivedAnswers == [access_token : {"mgmt-a"}, expires_in : {1}]

EmptyMgmtCache == [token |-> None, expires_at |-> NoTime]

NoTokenData == [access_token |-> None, expires_in |-> NoTime]

NoAnswer == [kind |-> "none", identities |-> <<>>]

\* The for loop over a list of identities: the access token of the first
\* google-oauth2 identity that has a non-empty one, else None.
FirstGoogleToken(identities) ==
    LET hits == {i \in DOMAIN identities :
                    /\ identities[i].provider = "google-oauth2"
                    /\ TruthyStr(identities[i].access_token)}
    IN  IF hits = {} THEN None
        ELSE identities[CHOOSE i \in hits : \A j \in hits : i <= j].access_token

ClaimsScan_AnyProvider(identities) ==
    LET hits == {i \in DOMAIN identities :
                    TruthyStr(identities[i].access_token)}
    IN  IF hits = {} THEN None
        ELSE identities[CHOOSE i \in hits : \A j \in hits : i <= j].access_token

\* Method 3's scan of the user record and method 4's scan of the claims.
MgmtScan(identities) == FirstGoogleToken(identities)
ClaimsScan(identities) == FirstGoogleToken(identities)

\* Methods 1 and 2: the namespaced custom claim, then the non-namespaced.
CustomClaimToken_PlainFirst(c) ==
    IF TruthyStr(c.plain) THEN c.plain
    ELSE IF TruthyStr(c.ns) THEN c.ns
    ELSE None

CustomClaimToken(c) ==
    IF TruthyStr(c.ns) THEN c.ns
    ELSE IF TruthyStr(c.plain) THEN c.plain
    ELSE None

\* What follows when neither custom claim holds a token: the Management
\* API when the claims have a sub, else the identities array at once.
ThirdMethod_IdentitiesFirst(c) ==
    IF ClaimsScan(c.identities) # None THEN "identities"
    ELSE IF TruthyStr(c.sub) THEN "management_api"
    ELSE "identities"

ThirdMethod(c) ==
    IF TruthyStr(c.sub) THEN "management_api" ELSE "identities"

MgmtCacheValid_Never(cache, t) == FALSE

MgmtCacheValid_Inclusive(cache, t) ==
    /\ TruthyStr(cache.token)
    /\ cache.expires_at # NoTime
    /\ t <= cache.expires_at

\* The cache test at the head of get_management_api_token.
MgmtCacheValid(cache, t) ==
    /\ TruthyStr(cache.token)
    /\ cache.expires_at # NoTime
    /\ t < cache.expires_at

CredentialsPresent_NoSecret ==
    /\ TruthyStr(AUTH0_DOMAIN)
    /\ TruthyStr(AUTH0_CLIENT_ID)

\* all([auth0_domain, client_id, client_secret])
CredentialsPresent ==
    /\ TruthyStr(AUTH0_DOMAIN)
    /\ TruthyStr(AUTH0_CLIENT_ID)
    /\ TruthyStr(AUTH0_CLIENT_SECRET)

\* data.get("expires_in", 86400): the lifetime the token endpoint stated.
Lifetime(expires_in) ==
    IF expires_in = NoTime THEN DEFAULT_EXPIRES_IN ELSE expires_in

ExpiresAt_NoBuffer(t, expires_in) ==
    t + (IF expires_in = NoTime THEN DEFAULT_EXPIRES_IN ELSE expires_in)

\* datetime.now() + timedelta(seconds=data.get("expires_in", 86400) - 300)
ExpiresAt(t, expires_in) ==
    t + (IF expires_in = NoTime THEN DEFAULT_EXPIRES_IN ELSE expires_in)
      - EXPIRY_BUFFER

InitResolver ==
    /\ mgmt_token_cache = EmptyMgmtCache
    /\ rpc = [p \in Callers |-> "idle"]
    /\ user_claims = [p \in Callers |-> NoUserClaims]
    /\ mgmt_token = [p \in Callers |-> None]
    /\ google_token = [p \in Callers |-> None]
    /\ api_answer = [p \in Callers |-> NoAnswer]
    /\ consulted = [p \in Callers |-> <<>>]
    /\ apiCalls = [p \in Callers |-> 0]
    /\ tokenRequests = [p \in Callers |-> 0]
    /\ rcalls = 0
    /\ token_answer = [p \in Callers |-> "none"]
    /\ mgmt_expiry = NoTime
    /\ token_data = NoTokenData

\* The resolver returns value, having tried the methods in tried.
ResolverReturns(p, value, tried) ==
    /\ google_token' = [google_token EXCEPT ![p] = value]
    /\ consulted' = [consulted EXCEPT ![p] = tried]
    /\ rpc' = [rpc EXCEPT ![p] = "done"]

IdentitiesMethod_Skipped(p, c, tried) == ResolverReturns(p, None, tried)

\* Method 4 and the return that follows it.
IdentitiesMethod(p, c, tried) ==
    ResolverReturns(p, ClaimsScan(c.identities), Append(tried, 4))

\* A custom claim holds the token: it is returned at once.
ResolveFromClaim(p, c) ==
    /\ CustomClaimToken(c) # None
    /\ user_claims' = [user_claims EXCEPT ![p] = c]
    /\ ResolverReturns(p, CustomClaimToken(c),
                       IF TruthyStr(c.ns) THEN <<1>> ELSE <<1, 2>>)
    /\ UNCHANGED <<mgmt_token_cache, mgmt_token, api_answer, apiCalls,
                   tokenRequests, token_answer>>

\* No custom claim and no sub: method 3 is skipped.
ResolveWithoutSub(p, c) ==
    /\ CustomClaimToken(c) = None
    /\ ThirdMethod(c) = "identities"
    /\ user_claims' = [user_claims EXCEPT ![p] = c]
    /\ IdentitiesMethod(p, c, <<1, 2>>)
    /\ UNCHANGED <<mgmt_token_cache, mgmt_token, api_answer, apiCalls,
                   tokenRequests, token_answer>>

\* Method 3 with a cached management token: the GET of the user record is
\* issued.
ResolveCachedToken(p, c) ==
    /\ CustomClaimToken(c) = None
    /\ ThirdMethod(c) = "management_api"
    /\ MgmtCacheValid(mgmt_token_cache, now)
    /\ user_claims' = [user_claims EXCEPT ![p] = c]
    /\ mgmt_token' = [mgmt_token EXCEPT ![p] = mgmt_token_cache.token]
    /\ token_answer' = [token_answer EXCEPT ![p] = "cached"]
    /\ apiCalls' = [apiCalls EXCEPT ![p] = @ + 1]
    /\ consulted' = [consulted EXCEPT ![p] = <<1, 2, 3>>]
    /\ rpc' = [rpc EXCEPT ![p] = "api"]
    /\ UNCHANGED <<mgmt_token_cache, google_token, api_answer, tokenRequests>>

\* Method 3 without a cached token and without credentials: the ValueError
\* of get_management_api_token is caught and method 3 yields None.
ResolveNoCredentials(p, c) ==
    /\ CustomClaimToken(c) = None
    /\ ThirdMethod(c) = "management_api"
    /\ ~MgmtCacheValid(mgmt_token_cache, now)
    /\ ~CredentialsPresent
    /\ user_claims' = [user_claims EXCEPT ![p] = c]
    /\ token_answer' = [token_answer EXCEPT ![p] = "missing_credentials"]
    /\ IdentitiesMethod(p, c, <<1, 2, 3>>)
    /\ UNCHANGED <<mgmt_token_cache, mgmt_token, api_answer, apiCalls,
                   tokenRequests>>

\* Method 3 without a cached token: the POST to /oauth/token is issued.
ResolveRequestToken(p, c) ==
    /\ CustomClaimToken(c) = None
    /\ ThirdMethod(c) = "management_api"
    /\ ~MgmtCacheValid(mgmt_token_cache, now)
    /\ CredentialsPresent
    /\ user_claims' = [user_claims EXCEPT ![p] = c]
    /\ tokenRequests' = [tokenRequests EXCEPT ![p] = @ + 1]
    /\ consulted' = [consulted EXCEPT ![p] = <<1, 2, 3>>]
    /\ rpc' = [rpc EXCEPT ![p] = "token"]
    /\ UNCHANGED <<mgmt_token_cache, mgmt_token, google_token, api_answer,
                   apiCalls, token_answer>>

\* The resolver is called with some verified claims.
Resolve(p, claimsSet) ==
    /\ rpc[p] = "idle" /\ rcalls < MaxCalls
    /\ rcalls' = rcalls + 1
    /\ \E c \in claimsSet :
         \/ ResolveFromClaim(p, c)
         \/ ResolveWithoutSub(p, c)
         \/ ResolveCachedToken(p, c)
         \/ ResolveNoCredentials(p, c)
         \/ ResolveRequestToken(p, c)
    /\ UNCHANGED <<now, nticks, AUTH0_DOMAIN, AUTH0_CLIENT_ID,
                   AUTH0_CLIENT_SECRET, mgmt_expiry, token_data,
                   nonResolveVars>>

\* The token request fails at transport level ("error") or is answered
\* with an error status, on which raise_for_status raises ("status"): the
\* exception is caught in get_google_access_token_from_management_api.
TokenRequestFails(p, kind) ==
    /\ rpc[p] = "token"
    /\ token_answer' = [token_answer EXCEPT ![p] = kind]
    /\ IdentitiesMethod(p, user_claims[p], consulted[p])
    /\ UNCHANGED <<now, nticks, AUTH0_DOMAIN, AUTH0_CLIENT_ID,
                   AUTH0_CLIENT_SECRET, mgmt_token_cache, user_claims,
                   mgmt_token, api_answer, apiCalls, tokenRequests, rcalls,
                   mgmt_expiry, token_data, nonResolveVars>>

\* The token request succeeds: the token is cached with its expiry and the
\* GET of the user record is issued.
TokenRequestSucceeds(p, data) ==
    /\ rpc[p] = "token"
    /\ mgmt_token_cache' = [token |-> data.access_token,
                            expires_at |-> ExpiresAt(now, data.expires_in)]
    /\ mgmt_expiry' = now + Lifetime(data.expires_in)
    /\ token_data' = data
    /\ mgmt_token' = [mgmt_token EXCEPT ![p] = data.access_token]
    /\ token_answer' = [token_answer EXCEPT ![p] = "issued"]
    /\ apiCalls' = [apiCalls EXCEPT ![p] = @ + 1]
    /\ rpc' = [rpc EXCEPT ![p] = "api"]
    /\ UNCHANGED <<now, nticks, AUTH0_DOMAIN, AUTH0_CLIENT_ID,
                   AUTH0_CLIENT_SECRET, user_claims, google_token,
                   api_answer, consulted, tokenRequests, rcalls,
                   nonResolveVars>>

\* The GET of the user record fails at transport level ("error") or is
\* answered with a status other than 200 ("status"): method 3 yields None.
UserRecordFails(p, kind) ==
    /\ rpc[p] = "api"
    /\ api_answer' = [api_answer EXCEPT ![p] =
                        [kind |-> kind, identities |-> <<>>]]
    /\ IdentitiesMethod(p, user_claims[p], consulted[p])
    /\ UNCHANGED <<now, nticks, AUTH0_DOMAIN, AUTH0_CLIENT_ID,
                   AUTH0_CLIENT_SECRET, mgmt_token_cache, user_claims,
                   mgmt_token, apiCalls, tokenRequests, rcalls,
                   token_answer, mgmt_expiry, token_data, nonResolveVars>>

\* The user record arrives: its identities are scanned; a token found is
\* returned, else method 4 follows.
UserRecordArrives(p, identities) ==
    /\ rpc[p] = "api"
    /\ api_answer' = [api_answer EXCEPT ![p] =
                        [kind |-> "ok", identities |-> identities]]
    /\ IF MgmtScan(identities) # None
       THEN ResolverReturns(p, MgmtScan(identities), consulted[p])
       ELSE IdentitiesMethod(p, user_claims[p], consulted[p])
    /\ UNCHANGED <<now, nticks, AUTH0_DOMAIN, AUTH0_CLIENT_ID,
                   AUTH0_CLIENT_SECRET, mgmt_token_cache, user_claims,
                   mgmt_token, apiCalls, tokenRequests, rcalls,
                   token_answer, mgmt_expiry, token_data, nonResolveVars>>

\* The resolver's caller has used the result; its next request may come.
ResolveReturn(p) ==
    /\ rpc[p] = "done"
    /\ rpc' = [rpc EXCEPT ![p] = "idle"]
    /\ user_claims' = [user_claims EXCEPT ![p] = NoUserClaims]
    /\ mgmt_token' = [mgmt_token EXCEPT ![p] = None]
    /\ google_token' = [google_token EXCEPT ![p] = None]
    /\ api_answer' = [api_answer EXCEPT ![p] = NoAnswer]
    /\ consulted' = [consulted EXCEPT ![p] = <<>>]
    /\ apiCalls' = [apiCalls EXCEPT ![p] = 0]
    /\ tokenRequests' = [tokenRequests EXCEPT ![p] = 0]
    /\ token_answer' = [token_answer EXCEPT ![p] = "none"]
    /\ UNCHANGED <<now, nticks, AUTH0_DOMAIN, AUTH0_CLIENT_ID,
                   AUTH0_CLIENT_SECRET, mgmt_token_cache, rcalls,
                   mgmt_expiry, token_data, nonResolveVars>>

(***************************************************************************)
(* The audit log: class AuditLog and its one instance audit_log.           *)
(***************************************************************************)
AuditUsers == {"user|1", "user|2"}
AuditActions == {"chat_interaction", "calendar_list"}

\* The dict log_action builds; the timestamp is the clock's reading.
LogEntry(user_id, action, success, t) ==
    [timestamp |-> t, user_id |-> user_id, action |-> action,
     details |-> "{}", success |-> success, ip_address |-> "127.0.0.1"]

get_user_logs_Everyone(user_id) == logs

\* [log for log in self.logs if log["user_id"] == user_id]
get_user_logs(user_id) ==
    SelectSeq(logs, LAMBDA log : log.user_id = user_id)

InitAudit ==
    /\ logs = <<>>
    /\ logged = [u \in AuditUsers |-> <<>>]

\* audit_log.log_action(user_id, action, details, success)
log_action(user_id, action, success) ==
    /\ Len(logs) < MaxLogs
    /\ logs' = Append(logs, LogEntry(user_id, action, success, now))
    /\ logged' = [logged EXCEPT ![user_id] =
                    Append(@, [action |-> action, success |-> success])]
    /\ UNCHANGED <<now, nticks, keyVars, resolveVars, agentVars>>

(***************************************************************************)
(* The agent: AIAgent.process_message with its handlers, called by         *)
(* chat_with_agent, and the two calendar endpoints.                        *)
(***************************************************************************)
\* A message, by the keywords its lower-cased text contains: "calendar";
\* one of "event", "meeting", "appointment"; one of "create", "add",
\* "schedule"; one of "list", "show", "view".  has_claims says whether
\* process_message was given user_claims.
Messages ==
    [calendar : BOOLEAN, other : BOOLEAN, create : BOOLEAN, list : BOOLEAN,
     has_claims : BOOLEAN]

NoMessage ==
    [calendar |-> FALSE, other |-> FALSE, create |-> FALSE, list |-> FALSE,
     has_claims |-> FALSE]

\* The claims the agent and the endpoints are called with.
AgentClaims ==
    { c \in AllUserClaims :
        /\ c.ns = None /\ c.plain = None
        /\ c.identities \in {<<>>, <<GitHub, Google("tok-claims-identity")>>} }

\* How the call of the moderation API ends.
ModerationOutcomes == {"flagged", "clean", "failed"}

\* What the completion API answers with status 200: the intent, and whether
\* the parameters hold both start_time and end_time.
CompletionAnswers ==
    [intent : {"list_calendar", "create_event", "general"}, times : BOOLEAN]

NoAgentResult == [action_taken |-> None, success |-> FALSE]

NoEndpointResult ==
    [endpoint |-> "none", status |-> 0, real_data |-> FALSE, mock |-> FALSE,
     constructions |-> 0]

Flagged_Never(outcome) == FALSE

Flagged_FailClosed(outcome) == outcome \in {"flagged", "failed"}

\* moderation_result["flagged"]: _moderate_content returns the API's verdict
\* and, when the call raises, {"flagged": False}.
Flagged(outcome) == outcome = "flagged"

\* The keyword test of process_message, used when no key is configured.
KeywordIntent(m) ==
    IF (m.calendar \/ m.other) /\ m.create THEN "create"
    ELSE IF (m.calendar \/ m.other) /\ m.list THEN "list"
    ELSE "general"

\* The keyword test in the except clause of _process_with_openai.
FallbackIsList(m) == m.calendar \/ m.list

\* user_claims.get("sub", "unknown")
UserId(c) == IF c.sub = None THEN "unknown" ELSE c.sub

\* The value the calendar endpoints test: the call of the coroutine function
\* get_google_access_token_from_auth0 is not awaited, so it is the coroutine
\* object itself.
EndpointToken(c) == "<coroutine object>"

InitAgent ==
    /\ apc = "idle"
    /\ msg = NoMessage
    /\ agent_claims = NoUserClaims
    /\ handler = "none"
    /\ moderation = "none"
    /\ completion = "none"
    /\ agent_result = NoAgentResult
    /\ intent_detected = FALSE
    /\ rcalls_before = 0
    /\ client_constructions = 0
    /\ chats = 0
    /\ ep_claims = NoUserClaims
    /\ ep_result = NoEndpointResult

\* audit_log.log_action called from a handler or an endpoint.
Logs(user_id, action, success) ==
    /\ logs' = Append(logs, LogEntry(user_id, action, success, now))
    /\ logged' = IF user_id \in DOMAIN logged
                 THEN [logged EXCEPT ![user_id] =
                         Append(@, [action |-> action, success |-> success])]
                 ELSE logged

\* process_message returns.
AgentFinishes(action_taken, success) ==
    /\ agent_result' = [action_taken |-> action_taken, success |-> success]
    /\ apc' = "done"
    /\ handler' = "none"

\* _handle_calendar_list up to its await of the resolver.
StartCalendarList(m) ==
    IF ~m.has_claims
    THEN AgentFinishes("calendar_list", FALSE)
    ELSE /\ apc' = "resolving"
         /\ handler' = "list"
         /\ agent_result' = agent_result

\* process_message is called: the moderation check and, without a key, the
\* keyword test and _handle_calendar_creation.
ChatArrives(m, c, outcome) ==
    /\ moderation' = outcome
    /\ msg' = m
    /\ agent_claims' = c
    /\ chats' = chats + 1
    /\ rcalls_before' = rcalls
    /\ client_constructions' = 0
    /\ completion' = "none"
    /\ IF Flagged(outcome)
       THEN /\ AgentFinishes("moderation_blocked", FALSE)
            /\ intent_detected' = FALSE
            /\ UNCHANGED auditVars
       ELSE IF OPENAI_API_KEY # None
       THEN /\ apc' = "completion"
            /\ intent_detected' = TRUE
            /\ UNCHANGED <<handler, agent_result, auditVars>>
       ELSE /\ intent_detected' = TRUE
            /\ IF KeywordIntent(m) = "create"
               THEN /\ Logs(UserId(c), "calendar_create_attempt", TRUE)
                    /\ AgentFinishes("calendar_create", TRUE)
               ELSE IF KeywordIntent(m) = "list"
               THEN StartCalendarList(m) /\ UNCHANGED auditVars
               ELSE /\ AgentFinishes("general_response", TRUE)
                    /\ UNCHANGED auditVars
    /\ UNCHANGED <<now, nticks, keyVars, resolveVars, OPENAI_API_KEY,
                   ep_claims, ep_result>>

ProcessMessage ==
    /\ apc = "idle" /\ chats < MaxCalls /\ rpc[1] = "idle"
    /\ \E m \in Messages, c \in AgentClaims :
         \E outcome \in IF OPENAI_API_KEY = None THEN {"skipped"}
                        ELSE ModerationOutcomes :
            ChatArrives(m, c, outcome)

\* The completion API answers with status 200 and a JSON object.
CompletionAnswer(answer) ==
    /\ apc = "completion"
    /\ completion' = answer.intent
    /\ IF answer.intent = "list_calendar"
       THEN StartCalendarList(msg) /\ UNCHANGED auditVars
       ELSE IF answer.intent = "create_event"
       THEN IF ~answer.times
            THEN AgentFinishes("calendar_create", FALSE) /\ UNCHANGED auditVars
            ELSE IF msg.has_claims
            THEN /\ apc' = "resolving"
                 /\ handler' = "create"
                 /\ UNCHANGED <<agent_result, auditVars>>
            ELSE /\ Logs(UserId(agent_claims), "calendar_create_attempt", TRUE)
                 /\ AgentFinishes("calendar_create", TRUE)
       ELSE AgentFinishes("general_response", TRUE) /\ UNCHANGED auditVars
    /\ UNCHANGED <<now, nticks, keyVars, resolveVars, OPENAI_API_KEY, msg,
                   agent_claims, moderation, intent_detected, rcalls_before,
                   client_constructions, chats, ep_claims, ep_result>>

\* The completion call fails (transport error, a status other than 200, an
\* answer that is not the JSON asked for): the except clause.
CompletionFails ==
    /\ apc = "completion"
    /\ completion' = "failed"
    /\ IF FallbackIsList(msg)
       THEN StartCalendarList(msg)
       ELSE AgentFinishes("error", FALSE)
    /\ UNCHANGED <<now, nticks, keyVars, resolveVars, auditVars,
                   OPENAI_API_KEY, msg, agent_claims, moderation,
                   intent_detected, rcalls_before, client_constructions,
                   chats, ep_claims, ep_result>>

\* The handler's await of get_google_access_token_from_auth0(user_claims).
AgentResolves ==
    /\ apc = "resolving" /\ rpc[1] = "idle"
    /\ Resolve(1, {agent_claims})

\* The resolver has returned to the handler.  Without a token the handler
\* answers with mock data (list) or a preview (create).  With a token it
\* calls GoogleCalendarClient(google_token), which raises TypeError since
\* __init__ requires user_id and auth0_management; the handler's except
\* clause answers.
AgentGotToken ==
    /\ apc = "resolving" /\ rpc[1] = "done"
    /\ IF ~TruthyStr(google_token[1])
       THEN /\ Logs(UserId(agent_claims),
                    IF handler = "list" THEN "calendar_list_attempt"
                    ELSE "calendar_create_attempt", TRUE)
            /\ AgentFinishes(IF handler = "list" THEN "calendar_list"
                             ELSE "calendar_create", TRUE)
            /\ UNCHANGED client_constructions
       ELSE /\ client_constructions' = client_constructions + 1
            /\ IF handler = "list"
               THEN Logs(UserId(agent_claims), "calendar_list_attempt", FALSE)
               ELSE UNCHANGED auditVars
            /\ AgentFinishes(IF handler = "list" THEN "calendar_list"
                             ELSE "calendar_create", FALSE)
    /\ rpc' = [rpc EXCEPT ![1] = "idle"]
    /\ user_claims' = [user_claims EXCEPT ![1] = NoUserClaims]
    /\ mgmt_token' = [mgmt_token EXCEPT ![1] = None]
    /\ google_token' = [google_token EXCEPT ![1] = None]
    /\ api_answer' = [api_answer EXCEPT ![1] = NoAnswer]
    /\ consulted' = [consulted EXCEPT ![1] = <<>>]
    /\ apiCalls' = [apiCalls EXCEPT ![1] = 0]
    /\ tokenRequests' = [tokenRequests EXCEPT ![1] = 0]
    /\ token_answer' = [token_answer EXCEPT ![1] = "none"]
    /\ UNCHANGED <<now, nticks, keyVars, AUTH0_CLIENT_ID, AUTH0_CLIENT_SECRET,
                   mgmt_token_cache, rcalls, mgmt_expiry, token_data,
                   OPENAI_API_KEY,
                   msg, agent_claims, moderation, completion,
                   intent_detected, rcalls_before, chats, ep_claims,
                   ep_result>>

\* chat_with_agent after process_message returned: the chat interaction is
\* logged and the response is sent.
ChatReturns ==
    /\ apc = "done"
    /\ Logs(UserId(agent_claims), "chat_interaction", agent_result.success)
    /\ apc' = "idle"
    /\ msg' = NoMessage
    /\ agent_claims' = NoUserClaims
    /\ moderation' = "none"
    /\ completion' = "none"
    /\ agent_result' = NoAgentResult
    /\ intent_detected' = FALSE
    /\ client_constructions' = 0
    /\ rcalls_before' = 0
    /\ UNCHANGED <<now, nticks, keyVars, resolveVars, OPENAI_API_KEY,
                   handler, chats, ep_claims, ep_result>>

\* GET /agent/calendar ("list") and POST /agent/calendar ("create").  Were
\* the tested value falsy the endpoint would answer with mock data; a
\* truthy value goes to GoogleCalendarClient(google_token), which raises
\* TypeError, and the except clause logs the failure and answers 500.
CalendarEndpoint(endpoint, c) ==
    /\ apc = "idle" /\ chats < MaxCalls
    /\ chats' = chats + 1
    /\ ep_claims' = c
    /\ IF ~TruthyStr(EndpointToken(c))
       THEN /\ Logs(UserId(c), "calendar_" \o endpoint, TRUE)
            /\ ep_result' = [endpoint |-> endpoint, status |-> 200,
                             real_data |-> FALSE, mock |-> TRUE,
                             constructions |-> 0]
       ELSE /\ Logs(UserId(c), "calendar_" \o endpoint, FALSE)
            /\ ep_result' = [endpoint |-> endpoint, status |-> 500,
                             real_data |-> FALSE, mock |-> FALSE,
                             constructions |-> 1]
    /\ UNCHANGED <<now, nticks, keyVars, resolveVars, OPENAI_API_KEY, apc,
                   msg, agent_claims, handler, moderation, completion,
                   agent_result, intent_detected, rcalls_before,
                   client_constructions>>

Tick(d) ==
    /\ nticks < MaxTicks
    /\ now' = now + d
    /\ nticks' = nticks + 1
    /\ UNCHANGED <<keyVars, resolveVars, auditVars, agentVars>>

vars == <<now, nticks, keyVars, resolveVars, auditVars, agentVars>>

InitClock == now = 1 /\ nticks = 0

(***************************************************************************)
(* Spec: concurrent requests against the key cache, one per caller.  The   *)
(* tokens are a few representatives; SpecVerify below runs every token     *)
(* through one caller that makes its requests one after the other.         *)
(***************************************************************************)
ConcurrentTokens ==
    { t \in WellFormedTokens :
        /\ t.alg = "RS256" /\ t.signer = 1 /\ t.nbf = NoTime
        /\ t.iss = ExpectedIssuer /\ t.aud = ExpectedAudience
        /\ t.exp = JWKS_CACHE_DURATION /\ t.kid = "k1" }

\* The answers of the key endpoint in Spec: no "keys" member, an empty key
\* list, one key.
ConcurrentDocs == { doc \in Docs : Len(doc.keys) <= 1 }

Configured ==
    /\ AUTH0_CLIENT_ID = "client-id"
    /\ AUTH0_CLIENT_SECRET = "client-secret"
    /\ OPENAI_API_KEY = "test_openai_key"

Init ==
    InitClock /\ InitKeys /\ InitResolver /\ InitAudit /\ InitAgent
    /\ Configured

Next ==
    \/ \E p \in Callers : Arrive(p, ConcurrentTokens)
    \/ \E p \in Callers : FetchFail(p)
    \/ \E p \in Callers, doc \in ConcurrentDocs : FetchSuccess(p, doc)
    \/ \E d \in TickSteps : Tick(d)

Spec == Init /\ [][Next]_vars

(***************************************************************************)
(* SpecVerify: one caller, every token.                                    *)
(***************************************************************************)
NextVerify ==
    \/ Arrive(1, Tokens)
    \/ FetchFail(1)
    \/ \E doc \in Docs : FetchSuccess(1, doc)
    \/ Return(1)
    \/ \E d \in TickSteps : Tick(d)

SpecVerify == Init /\ [][NextVerify]_vars

(***************************************************************************)
(* SpecResolve: one caller resolves tokens, one request after the other,   *)
(* for every shape of claims, under every configuration of credentials.    *)
(***************************************************************************)
InitResolve ==
    /\ InitClock /\ InitKeys /\ InitResolver /\ InitAudit /\ InitAgent
    /\ AUTH0_CLIENT_ID \in {"client-id", None}
    /\ AUTH0_CLIENT_SECRET \in {"client-secret", None}
    /\ OPENAI_API_KEY = "test_openai_key"

NextResolve ==
    \/ Resolve(1, AllUserClaims)
    \/ \E kind \in {"error", "status"} : TokenRequestFails(1, kind)
    \/ \E data \in TokenAnswers \cup ShortLivedAnswers :
          TokenRequestSucceeds(1, data)
    \/ \E kind \in {"error", "status"} : UserRecordFails(1, kind)
    \/ \E identities \in RecordIdentityLists : UserRecordArrives(1, identities)
    \/ ResolveReturn(1)
    \/ \E d \in TickSteps : Tick(d)

SpecResolve == InitResolve /\ [][NextResolve]_vars

(***************************************************************************)
(* SpecTrust: concurrent requests, one per caller, whose tokens are well   *)
(* formed, name a key of the key set and have one flaw each: a signature   *)
(* by another key, a foreign audience, a foreign issuer, or an expiry at   *)
(* instant 2.                                                              *)
(***************************************************************************)
Flaws(t) ==
    (IF t.signer = 1 THEN 0 ELSE 1)
    + (IF t.aud = ExpectedAudience THEN 0 ELSE 1)
    + (IF t.iss = ExpectedIssuer THEN 0 ELSE 1)
    + (IF t.exp = JWKS_CACHE_DURATION THEN 0 ELSE 1)

TrustTokens ==
    { t \in WellFormedTokens :
        /\ t.alg = "RS256" /\ t.kid = "k1" /\ t.nbf = NoTime
        /\ t.exp # NoTime
        /\ Flaws(t) = 1 }

TrustDocs == { doc \in Docs : doc.keys = <<KeyA>> }

NextTrust ==
    \/ \E p \in Callers : Arrive(p, TrustTokens)
    \/ \E p \in Callers : FetchFail(p)
    \/ \E p \in Callers, doc \in TrustDocs : FetchSuccess(p, doc)
    \/ Tick(1)

SpecTrust == Init /\ [][NextTrust]_vars

(***************************************************************************)
(* SpecMgmt: concurrent resolutions, one per caller, that share the        *)
(* management token cache.                                                 *)
(***************************************************************************)
MgmtClaims ==
    { c \in AllUserClaims :
        /\ c.identities = <<>>
        /\ c.ns \in {None, "tok-namespaced"}
        /\ c.plain = None
        /\ (c.ns # None => c.sub # None) }

MgmtRecords == { <<>>, <<GitHub, Google("tok-management")>> }

NextMgmt ==
    \/ \E p \in Callers : Resolve(p, MgmtClaims)
    \/ \E p \in Callers, kind \in {"error", "status"} :
          TokenRequestFails(p, kind)
    \/ \E p \in Callers, data \in TokenAnswers : TokenRequestSucceeds(p, data)
    \/ \E p \in Callers, kind \in {"error", "status"} :
          UserRecordFails(p, kind)
    \/ \E p \in Callers, identities \in MgmtRecords :
          UserRecordArrives(p, identities)
    \/ \E d \in TickSteps : Tick(d)

SpecMgmt == InitResolve /\ [][NextMgmt]_vars

(***************************************************************************)
(* SpecRefresh: one caller whose requests reach both caches: verify_jwt     *)
(* refreshes the key cache and the resolver's third method refreshes the   *)
(* Management API token, each refresh failing or succeeding.  The token    *)
(* endpoint states the lifetime of the buffer, so every resolution issues  *)
(* a token request.                                                        *)
(***************************************************************************)
RefreshClaims ==
    { c \in MgmtClaims : c.ns = None /\ TruthyStr(c.sub) }

RefreshTokenAnswers ==
    { data \in TokenAnswers : data.expires_in = EXPIRY_BUFFER }

NextRefresh ==
    \/ Arrive(1, ConcurrentTokens)
    \/ FetchFail(1)
    \/ \E doc \in ConcurrentDocs : FetchSuccess(1, doc)
    \/ Return(1)
    \/ Resolve(1, RefreshClaims)
    \/ \E kind \in {"error", "status"} : TokenRequestFails(1, kind)
    \/ \E data \in RefreshTokenAnswers : TokenRequestSucceeds(1, data)
    \/ \E kind \in {"error", "status"} : UserRecordFails(1, kind)
    \/ \E identities \in MgmtRecords : UserRecordArrives(1, identities)
    \/ ResolveReturn(1)
    \/ \E d \in TickSteps : Tick(d)

SpecRefresh == Init /\ [][NextRefresh]_vars

(***************************************************************************)
(* SpecAudit: any sequence of log_action calls, as time passes.            *)
(***************************************************************************)
NextAudit ==
    \/ \E u \in AuditUsers, a \in AuditActions, ok \in BOOLEAN :
          log_action(u, a, ok)
    \/ \E d \in TickSteps : Tick(d)

SpecAudit == Init /\ [][NextAudit]_vars

(***************************************************************************)
(* SpecAgent: chat requests and calendar requests of one user, one after   *)
(* the other, with or without a completion-API key.                        *)
(***************************************************************************)
InitAgentSpec ==
    /\ InitClock /\ InitKeys /\ InitResolver /\ InitAudit /\ InitAgent
    /\ AUTH0_DOMAIN = "tenant"
    /\ AUTH0_CLIENT_ID = "client-id"
    /\ AUTH0_CLIENT_SECRET = "client-secret"
    /\ OPENAI_API_KEY \in {"test_openai_key", None}

\* The answers of the token endpoint in SpecAgent.
AgentTokenAnswers ==
    { data \in TokenAnswers :
        data.access_token = "mgmt-a" /\ data.expires_in # NoTime }

NextAgent ==
    \/ ProcessMessage
    \/ \E answer \in CompletionAnswers : CompletionAnswer(answer)
    \/ CompletionFails
    \/ AgentResolves
    \/ \E kind \in {"error", "status"} : TokenRequestFails(1, kind)
    \/ \E data \in AgentTokenAnswers : TokenRequestSucceeds(1, data)
    \/ \E kind \in {"error", "status"} : UserRecordFails(1, kind)
    \/ \E identities \in MgmtRecords : UserRecordArrives(1, identities)
    \/ AgentGotToken
    \/ ChatReturns

SpecAgent == InitAgentSpec /\ [][NextAgent]_vars

(***************************************************************************)
(* SpecEndpoints: requests to GET and POST /agent/calendar, one after the  *)
(* other, for claims with and without a Google token in them.             *)
(***************************************************************************)
EndpointClaims ==
    { c \in AllUserClaims :
        /\ c.ns = None
        /\ c.identities \in {<<>>, <<GitHub, Google("tok-claims-identity")>>} }

NextEndpoints ==
    \/ \E endpoint \in {"list", "create"}, c \in EndpointClaims :
          CalendarEndpoint(endpoint, c)
    \/ \E d \in TickSteps : Tick(d)

SpecEndpoints == Init /\ [][NextEndpoints]_vars

(***************************************************************************)
(* Properties of the key cache and of the verifier.                        *)
(***************************************************************************)
Done(p) == pc[p] = "done"

\* The token's signature verifies under the key its kid resolves to in the
\* key set verify_jwt was given, with the expected algorithm.
SignatureValid(p) ==
    /\ keysOut[p].kind = "returned"
    /\ ~tok[p].malformed
    /\ tok[p].kid # None
    /\ FindKey(keysOut[p].doc, tok[p].kid) # <<>>
    /\ FindKey(keysOut[p].doc, tok[p].kid)[1].n = tok[p].signer
    /\ tok[p].alg = "RS256"

ExpiryInPast(p) == tok[p].exp # NoTime /\ tok[p].exp < result[p].at

Immature(p) == tok[p].nbf # NoTime /\ tok[p].nbf > result[p].at

\* C1 (as claimed): callers that find the cache empty or expired share one
\* outbound fetch, so at no instant are two fetches of the key endpoint in
\* flight.
C1_SingleFlight == Cardinality({p \in Callers : pc[p] = "fetch"}) <= 1

\* C2 (as claimed): verify fails with "unknown signing key" only after it
\* has refreshed the Key Cache for that token: the key set of the failing
\* lookup was fetched by this very call, never taken from the cache (stated
\* for key sets that hold a key, the rotation case).
C2_UnknownKeyOnlyAfterRefresh ==
    \A p \in Callers :
        (Done(p) /\ KeysOf(keysOut[p].doc) # <<>>
            /\ result[p].detail = "Unable to find appropriate key")
            => (fetched[p] /\ keysOut[p].age = NoTime)

\* C3 (as claimed): every token whose expiry is in the past fails with
\* "token expired", whether or not its signature is valid (stated for the
\* tokens whose key-id is in the key set, so that a signature is checked).
C3_ExpiredWhateverSignature ==
    \A p \in Callers :
        (Done(p) /\ keysOut[p].kind = "returned" /\ ~tok[p].malformed
            /\ tok[p].kid # None
            /\ FindKey(keysOut[p].doc, tok[p].kid) # <<>>
            /\ ExpiryInPast(p))
            => result[p].detail = "JWT token has expired"

\* C3 (amended): every token whose signature verifies, whose not-before is
\* not in the future and whose expiry is in the past fails with "token
\* expired", whatever its audience and issuer.
C3_ExpiredAfterSignature ==
    \A p \in Callers :
        (Done(p) /\ SignatureValid(p) /\ ~Immature(p) /\ ExpiryInPast(p))
            => /\ result[p].status = 401
               /\ result[p].detail = "JWT token has expired"

C3_Witness ==
    \E p \in Callers :
        /\ Done(p) /\ SignatureValid(p) /\ ExpiryInPast(p)
        /\ tok[p].aud # ExpectedAudience
        /\ result[p].detail = "JWT token has expired"

C5_ClaimsOnlyAfterAllChecks ==
    \A p \in Callers :
        (Done(p) /\ result[p].status = 200)
            => /\ keysOut[p].kind = "returned"
               /\ ~tok[p].malformed
               /\ tok[p].kid # None
               /\ \E i \in DOMAIN KeysOf(keysOut[p].doc) :
                     /\ KeysOf(keysOut[p].doc)[i].kid = tok[p].kid
                     /\ KeysOf(keysOut[p].doc)[i].n = tok[p].signer
               /\ tok[p].alg = "RS256"
               /\ tok[p].aud = ExpectedAudience
               /\ tok[p].iss = ExpectedIssuer
               /\ ~ExpiryInPast(p)
               /\ result[p].sub = tok[p].sub

C5_Witness ==
    \E p \in Callers :
        /\ Done(p) /\ result[p].status = 200
        /\ tok[p].kid = "k2" /\ keysOut[p].age # NoTime

\* C6: a request that finds a cached key set younger than the cache
\* duration is given that set, and neither issues a fetch nor changes the
\* cache or its timestamp.
C6_FreshCacheServedUntouched ==
    [][\A p \in Callers :
        (/\ pc[p] = "idle" /\ pc'[p] # "idle"
         /\ Truthy(jwks_cache) /\ jwks_last_updated # NoTime
         /\ now - jwks_last_updated < JWKS_CACHE_DURATION)
            => /\ pc'[p] = "done"
               /\ keysOut'[p].kind = "returned"
               /\ keysOut'[p].doc = jwks_cache
               /\ fetchCount' = fetchCount
               /\ ~fetched'[p]
               /\ jwks_cache' = jwks_cache
               /\ jwks_last_updated' = jwks_last_updated]_vars

C6_Witness ==
    \E p \in Callers :
        /\ Done(p) /\ keysOut[p].kind = "returned" /\ ~fetched[p]
        /\ keysOut[p].age > 0 /\ fetchCount >= 1

\* C7: when the fetch a refresh needs fails, get_jwks raises and the
\* request fails with it; the cached key set is not returned.
C7_FailedFetchPropagates ==
    \A p \in Callers :
        failed[p] => /\ Done(p)
                     /\ keysOut[p].kind = "raised"
                     /\ result[p].status = 500

C7_Witness ==
    \E p \in Callers :
        /\ failed[p] /\ Truthy(jwks_cache) /\ jwks_last_updated # NoTime
        /\ current_time[p] - jwks_last_updated >= JWKS_CACHE_DURATION

\* C8 (as claimed): a key set get_jwks returns holds at least one key, and
\* is younger than the cache duration or was fetched by that call.
C8_ServedNonEmptyAndFresh ==
    \A p \in Callers :
        keysOut[p].kind = "returned"
            => /\ KeysOf(keysOut[p].doc) # <<>>
               /\ (fetched[p] \/ keysOut[p].age < JWKS_CACHE_DURATION)

(***************************************************************************)
(* Properties of the token resolver.                                       *)
(***************************************************************************)
Resolved(p) == rpc[p] = "done"

\* The token the Management API holds for the request's subject: the first
\* non-empty google-oauth2 access token of the user record it answered with.
ManagementApiToken(p) ==
    IF TruthyStr(user_claims[p].sub) /\ api_answer[p].kind = "ok"
    THEN FirstGoogleToken(api_answer[p].identities)
    ELSE None

\* C9: claims with a non-empty namespaced custom claim resolve to exactly
\* that value, with no call of the Management API and no request for a
\* management token.
C9_NamespacedClaimWithoutCalls ==
    \A p \in Callers :
        (Resolved(p) /\ TruthyStr(user_claims[p].ns))
            => /\ google_token[p] = user_claims[p].ns
               /\ apiCalls[p] = 0
               /\ tokenRequests[p] = 0
               /\ api_answer[p] = NoAnswer

C9_Witness ==
    \E p \in Callers :
        /\ Resolved(p)
        /\ TruthyStr(user_claims[p].ns)
        /\ TruthyStr(user_claims[p].plain)
        /\ TruthyStr(user_claims[p].sub)
        /\ google_token[p] = "tok-namespaced"

\* C10: the resolver tries (1) the namespaced claim, (2) the non-namespaced
\* claim, (3) the Management API record of sub, (4) the identities array of
\* the claims, in that order; it returns the token of the first that has
\* one and tries none after it.
C10_FirstSourceInOrderWins ==
    \A p \in Callers :
        Resolved(p) =>
            LET c == user_claims[p] IN
            IF TruthyStr(c.ns)
            THEN google_token[p] = c.ns /\ consulted[p] = <<1>>
            ELSE IF TruthyStr(c.plain)
            THEN google_token[p] = c.plain /\ consulted[p] = <<1, 2>>
            ELSE IF ManagementApiToken(p) # None
            THEN /\ google_token[p] = ManagementApiToken(p)
                 /\ consulted[p] = <<1, 2, 3>>
            ELSE /\ google_token[p] = FirstGoogleToken(c.identities)
                 /\ consulted[p] =
                      IF TruthyStr(c.sub) THEN <<1, 2, 3, 4>> ELSE <<1, 2, 4>>

C10_Witness ==
    \E p \in Callers :
        /\ Resolved(p)
        /\ consulted[p] = <<1, 2, 3>>
        /\ google_token[p] = "tok-management"
        /\ FirstGoogleToken(user_claims[p].identities) # None

\* Some identity of the list is a google-oauth2 one with a non-empty access
\* token.
HoldsGoogleToken(identities) ==
    \E i \in DOMAIN identities :
        /\ identities[i].provider = "google-oauth2"
        /\ identities[i].access_token \notin {None, ""}

\* C11: when none of the four sources yields a token (no custom claim, no
\* google-oauth2 token in a user record the Management API answered with,
\* none in the identities array of the claims) the resolver returns None;
\* the call ends by returning, whatever the Management API did.
C11_NoSourceReturnsNone ==
    \A p \in Callers :
        (/\ rpc[p] = "done"
         /\ user_claims[p].ns \in {None, ""}
         /\ user_claims[p].plain \in {None, ""}
         /\ ~(api_answer[p].kind = "ok"
                /\ HoldsGoogleToken(api_answer[p].identities))
         /\ ~HoldsGoogleToken(user_claims[p].identities))
            => google_token[p] = None

C11_Witness ==
    \E p \in Callers :
        /\ rpc[p] = "done" /\ google_token[p] = None
        /\ user_claims[p].ns = "" /\ user_claims[p].plain = None
        /\ api_answer[p].kind = "ok"
        /\ api_answer[p].identities = <<GitHub>>
        /\ user_claims[p].identities = <<GitHub>>

\* C12 (as claimed): when the token endpoint or the Management API fails at
\* transport level during a resolution, the resolver raises instead of
\* returning: no such call ends by returning a value.
C12_TransportFailureRaises ==
    \A p \in Callers :
        (token_answer[p] = "error" \/ api_answer[p].kind = "error")
            => rpc[p] # "done"

(***************************************************************************)
(* Properties of the management token cache.                               *)
(***************************************************************************)
\* get_management_api_token returns to p from the cache in this step.
ServedFromCache(p) ==
    token_answer[p] # "cached" /\ token_answer'[p] = "cached"

\* C13: get_management_api_token returns a cached token only at an instant
\* before the token's expiry minus the 300 s buffer.
C13_NoCachedTokenPastBuffer ==
    [][\A p \in Callers :
        ServedFromCache(p)
            => /\ mgmt_expiry # NoTime
               /\ now < mgmt_expiry - 300
               /\ mgmt_token'[p] = mgmt_token_cache.token]_vars

C13_Witness ==
    \E p \in Callers :
        /\ token_answer[p] = "cached" /\ rpc[p] = "api"
        /\ mgmt_token[p] = mgmt_token_cache.token
        /\ now = mgmt_expiry - 300 - 1

\* The resolution of p calls get_management_api_token in this step.
CallsGetManagementApiToken(p) ==
    /\ rpc[p] = "idle" /\ rpc'[p] # "idle"
    /\ Len(consulted'[p]) >= 3 /\ consulted'[p][3] = 3

\* C14: once a token exchange has succeeded, a call made before the
\* token's expiry minus the buffer returns the cached token, issues no
\* token request and leaves the cache as it is; a call made at or after
\* that instant issues exactly one token request.  Calls come one after
\* the other, so the call after a new exchange is again a call of the
\* first kind.
C14_CachedUntilBufferThenOneRequest ==
    [][\A p \in Callers :
        (CallsGetManagementApiToken(p) /\ mgmt_expiry # NoTime)
            => IF now < mgmt_expiry - 300
               THEN /\ mgmt_token'[p] = mgmt_token_cache.token
                    /\ mgmt_token'[p] \notin {None, ""}
                    /\ tokenRequests'[p] = 0
                    /\ mgmt_token_cache' = mgmt_token_cache
               ELSE /\ tokenRequests'[p] = 1
                    /\ rpc'[p] = "token"
                    /\ mgmt_token'[p] = None]_vars

C14_Witness ==
    \E p \in Callers :
        /\ rpc[p] = "token" /\ tokenRequests[p] = 1
        /\ mgmt_expiry # NoTime /\ mgmt_token_cache.token \notin {None, ""}
        /\ nticks > 0 /\ now = mgmt_expiry - 300

\* C15: with the domain, the client id or the client secret missing,
\* get_management_api_token fails with the missing-credentials error: it
\* returns no token, issues no token request, and no call of the
\* Management API follows.
C15_MissingCredentialsFail ==
    \A p \in Callers :
        (/\ 3 \in {consulted[p][i] : i \in DOMAIN consulted[p]}
         /\ \/ AUTH0_DOMAIN \in {None, ""}
            \/ AUTH0_CLIENT_ID \in {None, ""}
            \/ AUTH0_CLIENT_SECRET \in {None, ""})
            => /\ token_answer[p] = "missing_credentials"
               /\ mgmt_token[p] = None
               /\ tokenRequests[p] = 0
               /\ apiCalls[p] = 0

C15_Witness ==
    \E p \in Callers :
        /\ token_answer[p] = "missing_credentials"
        /\ AUTH0_DOMAIN \notin {None, ""}
        /\ AUTH0_CLIENT_ID \notin {None, ""}
        /\ AUTH0_CLIENT_SECRET = None

\* C16 (as claimed): callers that find the management token cache empty or
\* expired share one outbound token request, so at no instant are two
\* requests to the token endpoint in flight.
C16_SingleTokenRequest ==
    Cardinality({p \in Callers : rpc[p] = "token"}) <= 1

(***************************************************************************)
(* Properties of the verifier's failures.                                  *)
(***************************************************************************)
\* The token of p was rejected by a trust check of jwt.decode: signature,
\* expiry, issuer or audience.
TrustRejected(p) ==
    /\ Done(p) /\ keysOut[p].kind = "returned" /\ ~tok[p].malformed
    /\ tok[p].kid # None /\ tok[p].alg = "RS256"
    /\ FindKey(keysOut[p].doc, tok[p].kid) # <<>>
    /\ FindKey(keysOut[p].doc, tok[p].kid)[1].n # 0
    /\ result[p].status # 200

\* C17 (as claimed): two tokens rejected by trust checks, whichever checks
\* they failed, get the same response: the same status and the same
\* detail.
C17_TrustFailuresAlike ==
    \A p, q \in Callers :
        (TrustRejected(p) /\ TrustRejected(q))
            => /\ result[p].status = result[q].status
               /\ result[p].detail = result[q].detail

\* C18: a request whose fetch of the key endpoint failed ends with status
\* 500 and "Unable to verify JWT signature", while every failure of a
\* request that was given a key set, whatever its token, has status 401.
C18_UpstreamFailureDistinct ==
    \A p \in Callers :
        Done(p) =>
            IF failed[p]
            THEN /\ result[p].status = 500
                 /\ result[p].detail = "Unable to verify JWT signature"
                 /\ result[p].sub = None
            ELSE keysOut[p].kind = "returned" => result[p].status \in {200, 401}

C18_Witness ==
    \E p \in Callers :
        /\ Done(p) /\ failed[p] /\ result[p].status = 500
        /\ ~tok[p].malformed /\ tok[p].kid = "k1" /\ tok[p].signer = 1
        /\ Truthy(jwks_cache)

\* C19 (as claimed): with the domain configured, an unparsable token fails
\* as a malformed token with status 401, whatever the state of the key
\* cache and of the key endpoint.
C19_MalformedAlwaysAuthFailure ==
    \A p \in Callers :
        (Done(p) /\ tok[p].malformed /\ AUTH0_DOMAIN # None)
            => /\ result[p].status = 401
               /\ result[p].detail = "Invalid JWT token: DecodeError"
               /\ result[p].sub = None

(***************************************************************************)
(* Properties of the audit log.                                            *)
(***************************************************************************)
\* C20: after any sequence of log_action calls, get_user_logs(u) is exactly
\* the entries logged with user_id u, in the order they were logged, each
\* with the action and the success flag it was logged with.
C20_UserLogsExactAndOrdered ==
    \A u \in AuditUsers :
        LET mine == get_user_logs(u) IN
        /\ Len(mine) = Len(logged[u])
        /\ \A i \in DOMAIN mine :
              /\ mine[i].user_id = u
              /\ mine[i].action = logged[u][i].action
              /\ mine[i].success = logged[u][i].success

C20_Witness ==
    /\ Len(logs) = 3
    /\ logs[1].user_id = "user|1" /\ logs[2].user_id = "user|2"
    /\ logs[3].user_id = "user|1"
    /\ logs[1].action # logs[3].action /\ logs[1].success # logs[3].success
    /\ Len(get_user_logs("user|1")) = 2

(***************************************************************************)
(* Properties of the agent and of the calendar endpoints.                  *)
(***************************************************************************)
\* C21 (as claimed): a message with no keyword in it, which moderation did
\* not flag and which the completion API, if it answered, took as general,
\* gets general_response with success True, with or without a key and
\* whether or not the completion call succeeded.
C21_NoKeywordIsGeneralResponse ==
    (/\ apc = "done"
     /\ ~msg.calendar /\ ~msg.other /\ ~msg.create /\ ~msg.list
     /\ moderation # "flagged"
     /\ completion \in {"none", "general", "failed"})
        => /\ agent_result.action_taken = "general_response"
           /\ agent_result.success

\* C24 (as claimed): a request to a calendar endpoint whose claims hold no
\* Google token and no sub, so that the resolver yields None for them, is
\* answered from the mock branch: status 200, mock data, real_data false,
\* and no calendar client constructed.
C24_NoTokenTakesMockBranch ==
    (/\ ep_result.endpoint # "none"
     /\ ep_claims.ns \in {None, ""} /\ ep_claims.plain \in {None, ""}
     /\ ep_claims.sub = None
     /\ ~HoldsGoogleToken(ep_claims.identities))
        => /\ ep_result.status = 200
           /\ ep_result.mock
           /\ ~ep_result.real_data
           /\ ep_result.constructions = 0

\* C25: a message the moderation check flags is answered at once with
\* moderation_blocked and success False: no intent detection is started,
\* no completion request is made, the resolver is not called and no
\* calendar client is constructed for it.
C25_FlaggedIsBlockedAtOnce ==
    moderation = "flagged"
        => /\ apc = "done"
           /\ agent_result.action_taken = "moderation_blocked"
           /\ ~agent_result.success
           /\ ~intent_detected
           /\ completion = "none"
           /\ rcalls = rcalls_before /\ rpc[1] = "idle"
           /\ client_constructions = 0

C25_Witness ==
    /\ moderation = "flagged" /\ apc = "done"
    /\ msg.calendar /\ msg.list /\ msg.has_claims
    /\ agent_claims.sub # None

\* C26: a message whose moderation call failed goes on to intent detection
\* as an unflagged message does (the completion request is issued, nothing
\* is returned or logged yet), and is never answered with
\* moderation_blocked.
C26_ModerationFailsOpen ==
    [][/\ (moderation # "failed" /\ moderation' = "failed")
            => /\ apc' = "completion"
               /\ intent_detected'
               /\ agent_result' = agent_result
               /\ logs' = logs
       /\ moderation = "failed"
            => agent_result'.action_taken # "moderation_blocked"]_vars

C26_Witness ==
    /\ moderation = "failed" /\ apc = "done"
    /\ agent_result.action_taken = "general_response"
    /\ agent_result.success

(***************************************************************************)
(* Further properties of the verifier and of the caches.                   *)
(***************************************************************************)
\* The token of p fails the expiry check at the instant it was verified.
FailsExpiry(p) == tok[p].exp # NoTime /\ tok[p].exp <= result[p].at

\* The token of p has a valid signature, is not immature, and fails at
\* least two of the audience, issuer and expiry checks.
FailsSeveralChecks(p) ==
    /\ Done(p) /\ SignatureValid(p) /\ ~Immature(p)
    /\ \/ tok[p].aud # ExpectedAudience /\ tok[p].iss # ExpectedIssuer
       \/ tok[p].aud # ExpectedAudience /\ FailsExpiry(p)
       \/ tok[p].iss # ExpectedIssuer /\ FailsExpiry(p)

C23_CacheAndTimestampWrittenTogether ==
    [][/\ (jwks_cache' # jwks_cache \/ jwks_last_updated' # jwks_last_updated)
            => \E p \in Callers :
                 /\ pc[p] = "fetch" /\ pc'[p] = "done" /\ ~failed'[p]
                 /\ keysOut'[p].kind = "returned"
                 /\ jwks_cache' = keysOut'[p].doc
                 /\ jwks_last_updated' = current_time[p]
       /\ jwks_cache' # EmptyDict => jwks_last_updated' # NoTime]_vars

C23_Witness ==
    \E p, q \in Callers :
        /\ p # q /\ fetched[p] /\ fetched[q]
        /\ Done(p) /\ Done(q) /\ ~failed[p] /\ ~failed[q]
        /\ keysOut[p].doc # keysOut[q].doc
        /\ current_time[p] # current_time[q]
        /\ jwks_cache = keysOut[p].doc
        /\ jwks_last_updated = current_time[p]

\* Step 3 of the resolution of p was tried and failed: credentials are
\* missing, the token request failed, or the Management API did not answer
\* with a user record.
StepThreeFailed(p) ==
    \/ token_answer[p] \in {"missing_credentials", "error", "status"}
    \/ api_answer[p].kind \in {"error", "status"}

\* C27: when step 3 fails for whatever reason, step 4 is still tried, and
\* a non-empty google-oauth2 access token in the identities array of the
\* claims is what the resolver returns (the first such token).
C27_StepFourAfterFailedStepThree ==
    \A p \in Callers :
        (rpc[p] = "done" /\ StepThreeFailed(p))
            => /\ consulted[p] = <<1, 2, 3, 4>>
               /\ HoldsGoogleToken(user_claims[p].identities)
                    => /\ google_token[p] \notin {None, ""}
                       /\ \E i \in DOMAIN user_claims[p].identities :
                             /\ user_claims[p].identities[i].provider
                                  = "google-oauth2"
                             /\ user_claims[p].identities[i].access_token
                                  = google_token[p]
                             /\ \A j \in 1..(i - 1) :
                                  ~HoldsGoogleToken(
                                     <<user_claims[p].identities[j]>>)

C27_Witness ==
    \E p \in Callers :
        /\ rpc[p] = "done" /\ token_answer[p] = "error"
        /\ google_token[p] = "tok-claims-second"

\* C28 (as claimed): the timestamp of the key cache never decreases,
\* whatever the interleaving of concurrent get_jwks calls.
C28_TimestampNeverDecreases ==
    [][jwks_last_updated' >= jwks_last_updated]_vars

\* The token request of p is answered with status 200 in this step.
TokenIssued(p) ==
    token_answer[p] # "issued" /\ token_answer'[p] = "issued"

\* The last answer of the token endpoint stated a lifetime of at most the
\* 300 s buffer.
ShortLifetime(data) ==
    data.expires_in # NoTime /\ data.expires_in <= 300

\* C30: a token whose stated lifetime is at most 300 s is stored with an
\* expiry that is not in the future, so it is never served from the cache
\* and every later call of get_management_api_token issues a new token
\* request; an answer that states no lifetime is stored as if it had
\* stated 86400 s.
C30_ShortLifetimeNeverCached ==
    [][\A p \in Callers :
        /\ TokenIssued(p)
             => /\ mgmt_token_cache'.token = token_data'.access_token
                /\ token_data'.expires_in = NoTime
                     => mgmt_token_cache'.expires_at = now + 86400 - 300
                /\ ShortLifetime(token_data')
                     => mgmt_token_cache'.expires_at <= now
        /\ (CallsGetManagementApiToken(p) /\ ShortLifetime(token_data))
             => /\ token_answer'[p] # "cached"
                /\ mgmt_token'[p] = None
                /\ tokenRequests'[p] = 1
                /\ rpc'[p] = "token"]_vars

C30_Witness ==
    \E p \in Callers :
        /\ rpc[p] = "token" /\ tokenRequests[p] = 1
        /\ ShortLifetime(token_data)
        /\ mgmt_token_cache.token = token_data.access_token
        /\ mgmt_token_cache.expires_at <= now
        /\ nticks = 0
\* The key fetch of p fails in this step.
KeyFetchFails(p) == ~failed[p] /\ failed'[p]

\* The token request of p fails in this step.
MgmtTokenRequestFails(p) ==
    token_answer[p] = "none" /\ token_answer'[p] \in {"error", "status"}

====
